---- MODULE Spec2Model ----
(***************************************************************************)
(* Download lifecycle engine of BitTorrent-Me.                             *)
(*                                                                         *)
(* The repository holds the same engine three times over:                  *)
(*   impl = "mono"    src/app.py: BitTorrentClient -> Download, whose      *)
(*                    start_download spawns _async_download_worker;        *)
(*   impl = "client"  src/src/core: BitTorrentClient builds a              *)
(*                    DownloadWorker per call (the surface routes.py       *)
(*                    calls);                                              *)
(*   impl = "service" src/src/services: DownloadService delegates to       *)
(*                    models/download.py Download, which dispatches on     *)
(*                    the State classes.                                   *)
(* One torrent (one id) is modelled.  asyncio is cooperative, so the code  *)
(* between two awaits of a task is one atomic step.                        *)
(***************************************************************************)
EXTENDS Integers, Sequences, FiniteSets, TLC

\* ------------------------------------------------------------------ bounds
TotalSize == 400
PieceLength == 256
NumFiles == 2
MaxRuns == 2
MaxTasks == 2
MaxSelect == 1
NameLen == 5

\* ------------------------------------------------------- program constants
BATCH_SIZE == 5
L_BATCH_SIZE == 20
YIELD_EVERY == 5
SAVE_EVERY_BATCHES == 5
HEADER_LEN == 32
PLAIN_TEXT_LEN == 248
ISO_LEN == 26
HASH_LEN == 20

Impls == {"mono", "client", "service"}

Min(a, b) == IF a < b THEN a ELSE b

\* ------------------------------------------------------------ the torrent
\* total_size and piece_length of the torrent the download was made from
VARIABLE torrent

TheTorrent == [total_size |-> TotalSize, piece_length |-> PieceLength]

TorrentSize == torrent.total_size

TorrentPieceLength == torrent.piece_length

\* math.ceil(total_size / piece_length)
NumPieces == (TorrentSize + TorrentPieceLength - 1) \div TorrentPieceLength

PieceIdx == 0 .. (NumPieces - 1)

\* piece_size = min(piece_length, total_size - i * piece_length)
PieceSize(i) == Min(TorrentPieceLength, TorrentSize - i * TorrentPieceLength)

\* lengths of the files of the (multi-file) torrent; they sum to TorrentSize
FileLen(f) == IF f < NumFiles THEN 1 ELSE TorrentSize - (NumFiles - 1)

FilesOf(isMulti) == IF isMulti THEN 1 .. NumFiles ELSE {}

RECURSIVE SumLen(_, _)
SumLen(S, sel) ==
    IF S = {} THEN 0
    ELSE LET f == CHOOSE x \in S : TRUE
         IN (IF sel[f] THEN FileLen(f) ELSE 0) + SumLen(S \ {f}, sel)

RECURSIVE SumSizes(_)
SumSizes(S) ==
    IF S = {} THEN 0
    ELSE LET i == CHOOSE x \in S : TRUE
         IN PieceSize(i) + SumSizes(S \ {i})

\* ---------------------------------------------------------- file contents
\* "txt": a name mimetypes maps to text/plain; "bin": a name with no known
\* type.  Every file name of the torrent has NameLen characters.  The
\* generators of app.py (541-689) return exactly the size asked for or
\* raise, whatever the extension, so only FileService reads the class.
Exts == {"bin", "txt"}

Max(a, b) == IF a > b THEN a ELSE b

\* len(str(n)) for n >= 0
RECURSIVE Digits(_)
Digits(n) == IF n < 10 THEN 1 ELSE 1 + Digits(n \div 10)

\* len(FileService._generate_text_content(filename, size)) for a .txt name:
\* the template with the name, the size and an isoformat timestamp put in
generate_text_content(size) == PLAIN_TEXT_LEN + NameLen + Digits(size) + ISO_LEN

\* len(FileService._generate_realistic_file_content(filename, size))
generate_realistic_file_content(e, size) ==
    LET header == IF e = "txt" THEN 0 ELSE HEADER_LEN
        remaining_size == size - header
    IN IF remaining_size <= 0 THEN Min(header, size)
       ELSE IF e = "txt"
       THEN header + Min(generate_text_content(remaining_size), remaining_size)
       ELSE header + remaining_size

\* the path written for a single-file download: download_folder / name
SingleFile == 0

Write(path, length) == [path |-> path, length |-> length]

\* An exception the environment raises in a scheduler step: in the
\* per-piece step (piece), or when the output file `file` is opened or
\* written.  NoFault raises nothing.
Fault(piece, file) == [piece |-> piece, file |-> file]

NoFault == Fault(FALSE, 0 - 1)

PieceFault == Fault(TRUE, 0 - 1)

\* FileService.write_files over the selected files from file f on, in the
\* order of download.files; the try encloses the loop, so the exception
\* raised for file bad ends it
RECURSIVE write_files(_, _, _, _)
write_files(f, sel, e, bad) ==
    IF f > NumFiles THEN << >>
    ELSE IF sel[f] /\ f = bad THEN << >>
    ELSE (IF sel[f]
          THEN <<Write(f, generate_realistic_file_content(e, FileLen(f)))>>
          ELSE << >>) \o write_files(f + 1, sel, e, bad)

\* Download._write_files_with_real_data, multi-file branch, from file f on:
\* each selected file gets file_data[data_offset:data_offset + file.length];
\* the try encloses the loop, so the exception raised for file bad ends it
RECURSIVE M_write_files(_, _, _, _, _)
M_write_files(f, sel, data_offset, data_len, bad) ==
    IF f > NumFiles THEN << >>
    ELSE IF sel[f] /\ f = bad THEN << >>
    ELSE IF sel[f]
    THEN <<Write(f, Max(0, Min(data_offset + FileLen(f), data_len) - Min(data_offset, data_len)))>>
         \o M_write_files(f + 1, sel, data_offset + FileLen(f), data_len, bad)
    ELSE M_write_files(f + 1, sel, data_offset, data_len, bad)

\* ------------------------------------------------------------------ state
VARIABLES
    impl,      \* which of the three implementations runs
    multi,     \* is_multi_file of the torrent
    known,     \* torrent_id in client.downloads
    d,         \* the Download object
    disk,      \* <download_folder>/state.json, or NoFile
    index,     \* download_state.json entry of the id, or NoFile
    workers,   \* the scheduler tasks of the event loop
    runs,      \* scheduler tasks created so far
    nsel,      \* file-selection updates made so far
    ret,       \* the last control call and what it returned
    ext,       \* extension class of the torrent's file names
    out,       \* the writes made to the download folder, oldest first
    meta,      \* the metadata handed to the parser
    parsed,    \* what the parser built from meta
    cmd,       \* a DownloadCommand object of design_patterns.py
    chain,     \* a request handed to the handler chain of design_patterns.py
    reg,       \* a store of several downloads and the registry loaded from it
    data,      \* where the data of each piece and of the output files came from
    folder,    \* the download folder, and what remove_download left to do
    twin       \* app.py run side by side with the layered client

vars == <<impl, multi, known, d, disk, index, workers, runs, nsel, ret,
          ext, out, meta, parsed, cmd, chain, reg, torrent, data, folder, twin>>

\* the variables of the parser, of the command objects and of the handlers,
\* and the torrent, which no operation changes
others == <<meta, parsed, cmd, chain, reg, torrent>>

aside == <<others, data, folder, twin>>

NoFile == [exists |-> FALSE]

NoPiece == 0 - 1

\* ret.piece is the index a scheduler step recorded, or NoPiece; ret.fault
\* is the exception raised in the step, or NoFault
Ret(op, res) == [op |-> op, res |-> res, piece |-> NoPiece, fault |-> NoFault]

NoRet == Ret("none", FALSE)

Frac(n, m) == [n |-> n, d |-> m]

\* download_progress values are n/d*100
FracLeq(a, b) == a.n * b.d <= b.n * a.d

FracEq(a, b) == a.n * b.d = b.n * a.d

\* values of the parser's and the command's variables while neither is used
NoMeta == [wellformed |-> FALSE]

NoParse == [ok |-> FALSE]

NoCommand == [kind |-> "none"]

NoChain == [handled |-> FALSE]

NoRegistry == [loaded |-> FALSE]

\* the piece data is followed only in DataSpec
NoData == [tracked |-> FALSE]

\* app.py runs beside the layered client only in PairSpec
NoTwin == [on |-> FALSE]

\* the download folder Download.__init__ makes (mkdir, exist_ok), of a
\* download that was not removed
Kept == [exists |-> TRUE, removed |-> FALSE, stopping |-> FALSE]

\* Download.__init__ before load_state, with add_files applied
NewDownload(isMulti, autoStop) ==
    [state |-> "stopped",
     downloading |-> FALSE,
     paused |-> FALSE,
     completed |-> FALSE,
     pieces |-> {},
     size |-> 0,
     progress |-> Frac(0, 1),
     sel |-> [f \in FilesOf(isMulti) |-> TRUE],
     auto_stop |-> autoStop]

\* a task's locals; resumed records whether downloaded_pieces was non-empty
\* when the task began, halted whether a stop was made while the task was in
\* the pause wait of a piece (both are history, not fields of the code)
FreeWorker ==
    [pc |-> "free", bs |-> 0, i |-> 0, cnt |-> 0, tgt |-> 0,
     running |-> FALSE, paused |-> FALSE, stopped |-> FALSE,
     resumed |-> FALSE, halted |-> FALSE]

\* the tasks as a stop leaves them: none is touched, the ones waiting out a
\* pause for a piece are remembered
Halt(ws) ==
    [k \in DOMAIN ws |->
        IF ws[k].pc \in {"piecewait", "pausewait"}
        THEN [ws[k] EXCEPT !.halted = TRUE] ELSE ws[k]]

\* Download.save_state: the JSON written to state.json
save_state(dl) ==
    [exists |-> TRUE,
     downloaded_pieces |-> dl.pieces,
     downloaded_size |-> dl.size,
     completed |-> dl.completed,
     file_selections |-> dl.sel]

\* Download.load_state, as called from __init__: self.files is still empty
\* there, so the loop over self.files applies no file_selections entry.
load_state(dl, file) ==
    IF file.exists
    THEN [dl EXCEPT !.pieces = file.downloaded_pieces,
                    !.size = file.downloaded_size,
                    !.completed = file.completed,
                    !.progress = Frac(Cardinality(file.downloaded_pieces), NumPieces)]
    ELSE dl

\* save_downloads_state: the entry of the global index
save_downloads_state(dl) ==
    [exists |-> TRUE, selected |-> dl.sel, auto_stop |-> dl.auto_stop]

Init ==
    /\ torrent = TheTorrent
    /\ impl \in Impls
    /\ multi \in BOOLEAN
    /\ known = FALSE
    /\ d = NewDownload(multi, TRUE)
    /\ disk = NoFile
    /\ index = NoFile
    /\ workers = [k \in 1 .. MaxTasks |-> FreeWorker]
    /\ runs = 0
    /\ nsel = 0
    /\ ret = NoRet
    /\ ext \in IF impl = "client" THEN Exts ELSE {"bin"}
    /\ out = << >>
    /\ meta = NoMeta
    /\ parsed = NoParse
    /\ cmd = NoCommand
    /\ chain = NoChain
    /\ reg = NoRegistry
    /\ data = NoData
    /\ folder = Kept
    /\ twin = NoTwin

\* ----------------------------------------------- parse / settings / files
\* BitTorrentClient.parse_torrent (app.py) and DownloadService.create_download
parse_torrent(autoStop) ==
    /\ IF known
       THEN UNCHANGED <<known, d, index>>
       ELSE LET fresh == load_state(NewDownload(multi, autoStop), disk)
            IN /\ d' = fresh
               /\ known' = TRUE
               /\ index' = save_downloads_state(fresh)
    /\ ret' = Ret("parse", TRUE)
    /\ UNCHANGED <<aside, ext, out, impl, multi, disk, workers, runs, nsel>>

\* update_download_settings: replaces settings and saves the global index
update_download_settings(autoStop) ==
    /\ IF known
       THEN /\ d' = [d EXCEPT !.auto_stop = autoStop]
            /\ index' = save_downloads_state(d')
            /\ ret' = Ret("settings", TRUE)
       ELSE /\ UNCHANGED <<d, index>>
            /\ ret' = Ret("settings", FALSE)
    /\ UNCHANGED <<aside, ext, out, impl, multi, known, disk, workers, runs, nsel>>

\* update_file_selection: sets file.selected for every path of the map
\* and saves state.json only (the global index is not rewritten)
update_file_selection(file_selections) ==
    /\ nsel < MaxSelect
    /\ nsel' = nsel + 1
    /\ IF known
       THEN /\ d' = [d EXCEPT !.sel = [f \in DOMAIN @ |->
                                         IF f \in DOMAIN file_selections
                                         THEN file_selections[f] ELSE @[f]]]
            /\ disk' = save_state(d')
            /\ ret' = Ret("select", TRUE)
       ELSE /\ UNCHANGED <<d, disk>>
            /\ ret' = Ret("select", FALSE)
    /\ UNCHANGED <<aside, ext, out, impl, multi, known, index, workers, runs>>

\* load_downloads 191-229: the Download built for one entry of the index
load_download(download_info, file) ==
    [load_state(NewDownload(multi, download_info.auto_stop), file)
        EXCEPT !.sel = download_info.selected]

\* Process restart followed by load_downloads: every task is gone; the
\* Download is rebuilt only if the index names it and state.json exists.
\* Download.__init__ runs load_state before the files are attached, then
\* the files take their selected flag from the global index.
load_downloads ==
    /\ IF index.exists /\ disk.exists
       THEN /\ known' = TRUE
            /\ d' = load_download(index, disk)
       ELSE /\ known' = FALSE
            /\ d' = NewDownload(multi, TRUE)
    /\ workers' = [k \in 1 .. MaxTasks |-> FreeWorker]
    /\ ret' = Ret("load", TRUE)
    /\ UNCHANGED <<aside, ext, out, impl, multi, disk, index, runs, nsel>>

\* ------------------------------------------------------------ worker pool
FreeSlots == {k \in 1 .. MaxTasks : workers[k].pc = "free"}

\* the slot of the task a start creates
Slot == CHOOSE k \in FreeSlots : \A j \in FreeSlots : k <= j

\* create_task is modelled while fewer than MaxTasks tasks are alive and
\* fewer than MaxRuns have been created
CanSpawn == runs < MaxRuns /\ FreeSlots # {}

\* tasks of the event loop
Alive == {k \in 1 .. MaxTasks : workers[k].pc # "free"}

\* tasks whose piece loop has begun and has not exited
Active == {k \in 1 .. MaxTasks : workers[k].pc \notin {"free", "new"}}

\* a finished task leaves the event loop
Retire(w) == IF w.pc = "done" THEN FreeWorker ELSE w

\* A scheduler step in a folder that remove_download has deleted.  open()
\* of state.json raises there and save_state logs it (app.py 322-324,
\* models/download.py 252-253); open() of the single output file raises too
\* (app.py 713-719, download_worker.py 180-196).  Writing the selected files
\* of a multi-file torrent makes the folder again first (app.py 700,
\* file_service.py 253), and the save_state after it succeeds.
Recreated(t) == ~folder.exists /\ multi /\ Len(t.out) > Len(out)

\* what the step that computed t leaves in the folder: now if the folder is
\* there, was if it is not
InFolder(t, now, was) == IF folder.exists \/ Recreated(t) THEN now ELSE was

\* a call on the Download: the Download it leaves, the boolean it returns
Call(dl, res) == [d |-> dl, res |-> res]

\* =================================================== impl = "mono" (app.py)
\* A scheduler state s is [d, disk, w, rec]: the Download, its state.json,
\* the task's locals and the recording history.

\* len(file_data) of app.py 422-429: the contents of the files selected when
\* the task began, padded to the sum of the piece sizes
M_file_data(w) == Max(w.tgt, SumSizes(PieceIdx))

\* the paths the File Assembler writes for download dl
Written(dl) == IF multi THEN {f \in DOMAIN dl.sel : dl.sel[f]} ELSE {SingleFile}

\* Download._write_files_with_real_data (app.py 691-719)
M_write_files_with_real_data(s) ==
    IF multi
    THEN M_write_files(1, s.d.sel, 0, M_file_data(s.w), s.fault.file)
    ELSE IF s.fault.file = SingleFile THEN << >>
    ELSE <<Write(SingleFile, M_file_data(s.w))>>

\* variant of M_finish: the files are written and completed is set
\* whatever the number of pieces recorded
M_finish_Always(s) ==
    LET d1 == [s.d EXCEPT !.completed = TRUE,
                          !.downloading = IF s.d.auto_stop THEN FALSE ELSE @]
        d2 == [d1 EXCEPT !.downloading = FALSE]
    IN [s EXCEPT !.d = d2,
                 !.disk = save_state(d2),
                 !.out = @ \o M_write_files_with_real_data(s),
                 !.raised = IF s.fault.file \in Written(s.d) THEN s.fault ELSE @,
                 !.w.pc = "done"]

\* app.py 503-520: after the batch loop, and the finally clause
M_finish(s) ==
    LET all == Cardinality(s.d.pieces) = NumPieces
        d1 == IF all
              THEN [s.d EXCEPT !.completed = TRUE,
                               !.downloading = IF s.d.auto_stop THEN FALSE ELSE @]
              ELSE s.d
        d2 == [d1 EXCEPT !.downloading = FALSE]
    IN [s EXCEPT !.d = d2,
                 !.disk = save_state(d2),
                 !.out = IF all THEN @ \o M_write_files_with_real_data(s) ELSE @,
                 !.raised = IF all /\ s.fault.file \in Written(s.d)
                            THEN s.fault ELSE @,
                 !.w.pc = "done"]

\* app.py 516-520: an exception of the loop is logged, then the finally
\* clause runs
M_abort(s) ==
    LET d2 == [s.d EXCEPT !.downloading = FALSE]
    IN [s EXCEPT !.d = d2,
                 !.disk = save_state(d2),
                 !.raised = s.fault,
                 !.w.pc = "done"]

RECURSIVE M_batch_top(_), M_piece_top(_)

\* app.py 458-465: after the per-piece pause wait
M_piece_go(s) ==
    IF ~s.d.downloading
    THEN \* break, then line 501 saves and the batch loop goes on
         M_batch_top([s EXCEPT !.disk = save_state(s.d),
                               !.w.bs = s.w.bs + BATCH_SIZE])
    ELSE [s EXCEPT !.w.pc = "throttle"]

\* app.py 450-456: head of the loop over the indices of one batch
M_piece_top(s) ==
    IF s.w.i >= Min(s.w.bs + BATCH_SIZE, NumPieces)
    THEN M_batch_top([s EXCEPT !.disk = save_state(s.d),
                               !.w.bs = s.w.bs + BATCH_SIZE])
    ELSE IF s.w.i \in s.d.pieces
    THEN M_piece_top([s EXCEPT !.w.i = s.w.i + 1])
    ELSE IF s.d.paused /\ s.d.downloading
    THEN [s EXCEPT !.w.pc = "piecewait"]
    ELSE M_piece_go(s)

\* app.py 444-447: after the per-batch pause wait
M_batch_go(s) ==
    IF ~s.d.downloading
    THEN M_finish(s)
    ELSE M_piece_top([s EXCEPT !.w.i = s.w.bs])

\* app.py 435-442: head of the batch loop
M_batch_top(s) ==
    IF s.w.bs >= NumPieces THEN M_finish(s)
    ELSE IF ~s.d.downloading THEN M_finish(s)
    ELSE IF s.d.paused /\ s.d.downloading THEN [s EXCEPT !.w.pc = "batchwait"]
    ELSE M_batch_go(s)

\* app.py 467-495: the throttle sleep is over; the piece is recorded with
\* the task-local downloaded_size, which started at 0 in this run
M_record(s) ==
    LET i == s.w.i
        cnt == s.w.cnt + PieceSize(i)
        s1 == [s EXCEPT !.d.pieces = @ \cup {i},
                        !.d.size = cnt,
                        !.d.progress = IF s.w.tgt > 0 THEN Frac(cnt, s.w.tgt) ELSE @,
                        !.w.cnt = cnt,
                        !.rec = i]
    IN IF s.fault.piece
       THEN \* raised while the piece data is taken (473-480)
            M_abort(s)
       ELSE IF i % YIELD_EVERY = 0
       THEN [s1 EXCEPT !.w.pc = "yield"]
       ELSE M_piece_top([s1 EXCEPT !.w.i = i + 1])

\* app.py 412-433: first run of the task up to its first await
M_begin(s) ==
    M_batch_top([s EXCEPT !.w.tgt = IF multi THEN SumLen(DOMAIN s.d.sel, s.d.sel)
                                    ELSE TorrentSize,
                          !.w.cnt = 0,
                          !.w.bs = 0,
                          !.w.resumed = s.d.pieces # {}])

\* Where the bytes come from.  _extract_file_data_from_torrent (522-539)
\* builds file_data from os.urandom and random.choice, once in every task:
\* each task has a byte string of its own, file_data number data.blob[k].
\* Line 476 takes the data of piece i from the task's file_data, at the
\* offset of the piece (data.gen[i] is the number of that file_data), and
\* line 505 writes the output files from the task's file_data, from offset
\* 0 on (data.wrote).  0 stands for none.
TrackedData ==
    [tracked |-> TRUE,
     next |-> 1,
     blob |-> [k \in 1 .. MaxTasks |-> 0],
     gen |-> [i \in PieceIdx |-> 0],
     wrote |-> 0]

\* data after the step of task k that took the task from w to t.w
M_data(k, w, t) ==
    IF ~data.tracked THEN data
    ELSE LET b == IF w.pc = "new" THEN data.next ELSE data.blob[k]
         IN [data EXCEPT
               !.next = IF w.pc = "new" THEN @ + 1 ELSE @,
               !.blob[k] = IF t.w.pc = "done" THEN 0 ELSE b,
               !.gen = IF t.rec # NoPiece THEN [@ EXCEPT ![t.rec] = b] ELSE @,
               !.wrote = IF Len(t.out) > Len(out) THEN b ELSE @]

\* the places at which a task of _async_download_worker is suspended
M_Suspended == {"new", "batchwait", "piecewait", "throttle", "yield"}

\* app.py 410-520: the code a task in scheduler state s runs from where it
\* is suspended to its next await
M_step(s) ==
    LET waiting == s.d.paused /\ s.d.downloading
    IN CASE s.w.pc = "new" -> M_begin(s)
         [] s.w.pc = "batchwait" -> IF waiting THEN s ELSE M_batch_go(s)
         [] s.w.pc = "piecewait" -> IF waiting THEN s ELSE M_piece_go(s)
         [] s.w.pc = "throttle" -> M_record(s)
         [] s.w.pc = "yield" -> M_piece_top([s EXCEPT !.w.i = s.w.i + 1])

\* Download._async_download_worker: one resumption of task k, in which the
\* environment raises fault
M_async_download_worker(k, fault) ==
    LET w == workers[k]
        s == [d |-> d, disk |-> disk, w |-> w, rec |-> NoPiece, out |-> out,
              fault |-> fault, raised |-> NoFault]
        t == M_step(s)
    IN /\ impl = "mono"
       /\ w.pc \in M_Suspended
       /\ d' = t.d
       /\ disk' = InFolder(t, t.disk, disk)
       /\ workers' = [workers EXCEPT ![k] = Retire(t.w)]
       /\ ret' = [op |-> "step", res |-> FALSE, piece |-> t.rec, fault |-> t.raised]
       /\ out' = InFolder(t, t.out, out)
       /\ data' = M_data(k, w, t)
       /\ folder' = [folder EXCEPT !.exists = @ \/ Recreated(t)]
       /\ UNCHANGED <<others, twin, ext, impl, multi, known, index, runs, nsel>>

\* variant of Download_call: resume_download leaves the paused flag set
Download_call_StaysPaused(op, dl) ==
    CASE op = "start" ->
           IF dl.completed THEN Call(dl, TRUE)
           ELSE Call([dl EXCEPT !.downloading = TRUE, !.paused = FALSE], TRUE)
      [] op = "pause" ->
           IF ~dl.downloading THEN Call(dl, FALSE)
           ELSE Call([dl EXCEPT !.paused = TRUE], TRUE)
      [] op = "resume" ->
           IF ~dl.downloading \/ ~dl.paused THEN Call(dl, FALSE)
           ELSE Call(dl, TRUE)
      [] op = "stop" ->
           Call([dl EXCEPT !.downloading = FALSE, !.paused = FALSE], TRUE)

\* app.py 349-408: Download.start_download, pause_download, resume_download
\* and stop_download, without the task start creates and the save of stop
Download_call(op, dl) ==
    CASE op = "start" ->
           IF dl.completed THEN Call(dl, TRUE)
           ELSE Call([dl EXCEPT !.downloading = TRUE, !.paused = FALSE], TRUE)
      [] op = "pause" ->
           IF ~dl.downloading THEN Call(dl, FALSE)
           ELSE Call([dl EXCEPT !.paused = TRUE], TRUE)
      [] op = "resume" ->
           IF ~dl.downloading \/ ~dl.paused THEN Call(dl, FALSE)
           ELSE Call([dl EXCEPT !.paused = FALSE], TRUE)
      [] op = "stop" ->
           Call([dl EXCEPT !.downloading = FALSE, !.paused = FALSE], TRUE)

\* app.py beside the layered client: what the call or the scheduler step op
\* makes of it.  It has one task; a step resumes the task if there is one.
Twin(op) ==
    IF ~twin.on THEN twin
    ELSE IF op = "step"
    THEN IF twin.s.w.pc \notin M_Suspended THEN twin
         ELSE LET t == M_step([twin.s EXCEPT !.rec = NoPiece])
              IN [twin EXCEPT !.s = [t EXCEPT !.w = Retire(t.w)]]
    ELSE LET c == Download_call(op, twin.s.d)
             spawn == op = "start" /\ ~twin.s.d.completed /\ twin.s.w.pc = "free"
         IN [twin EXCEPT !.s.d = c.d,
                         !.s.w = IF spawn THEN [FreeWorker EXCEPT !.pc = "new"] ELSE @,
                         !.s.disk = IF op = "stop" THEN save_state(c.d) ELSE @,
                         !.res = c.res]

\* variant of M_start_download: the completed test of line 351 is missing
M_start_download_Restart ==
    /\ impl = "mono"
    /\ IF ~known
       THEN /\ ret' = Ret("start", FALSE)
            /\ UNCHANGED <<d, workers, runs>>
       ELSE /\ CanSpawn
            /\ d' = [d EXCEPT !.downloading = TRUE, !.paused = FALSE]
            /\ workers' = [workers EXCEPT ![Slot] = [FreeWorker EXCEPT !.pc = "new"]]
            /\ runs' = runs + 1
            /\ ret' = Ret("start", TRUE)
    /\ UNCHANGED <<aside, ext, out, impl, multi, known, disk, index, nsel>>

\* app.py 903-909 and 349-374
M_start_download ==
    /\ impl = "mono"
    /\ IF ~known
       THEN /\ ret' = Ret("start", FALSE)
            /\ UNCHANGED <<d, workers, runs, nsel>>
       ELSE IF d.completed
       THEN /\ ret' = Ret("start", TRUE)
            /\ UNCHANGED <<d, workers, runs, nsel>>
       ELSE /\ CanSpawn
            /\ d' = Download_call("start", d).d
            /\ workers' = [workers EXCEPT ![Slot] = [FreeWorker EXCEPT !.pc = "new"]]
            /\ runs' = runs + 1
            /\ ret' = Ret("start", TRUE)
    /\ UNCHANGED <<aside, ext, out, impl, multi, known, disk, index, nsel>>

\* app.py 911-917 and 376-385
M_pause_download ==
    /\ impl = "mono"
    /\ LET c == IF known THEN Download_call("pause", d) ELSE Call(d, FALSE)
       IN /\ d' = c.d
          /\ ret' = Ret("pause", c.res)
    /\ UNCHANGED <<aside, ext, out, impl, multi, known, disk, index, workers, runs, nsel>>

\* app.py 919-925 and 387-396
M_resume_download ==
    /\ impl = "mono"
    /\ LET c == IF known THEN Download_call("resume", d) ELSE Call(d, FALSE)
       IN /\ d' = c.d
          /\ ret' = Ret("resume", c.res)
    /\ UNCHANGED <<aside, ext, out, impl, multi, known, disk, index, workers, runs, nsel>>

\* app.py 927-933 and 398-408.  download_process.stop() cancels the
\* DownloadProcess task only; the _async_download_worker task keeps running
\* until it reads self.downloading.
M_stop_download ==
    /\ impl = "mono"
    /\ IF known
       THEN /\ d' = Download_call("stop", d).d
            /\ disk' = save_state(d')
            /\ workers' = Halt(workers)
            /\ ret' = Ret("stop", TRUE)
       ELSE /\ UNCHANGED <<d, disk, workers>>
            /\ ret' = Ret("stop", FALSE)
    /\ UNCHANGED <<aside, ext, out, impl, multi, known, index, runs, nsel>>

\* ============================= impl = "client" (src/src/core, the workers)

\* download_worker.py 152-184: the files _complete_download writes
L_complete_download_files(dl, bad) ==
    IF multi /\ NumFiles > 0
    THEN write_files(1, dl.sel, ext, bad)
    ELSE IF bad = SingleFile THEN << >>
    ELSE <<Write(SingleFile, generate_realistic_file_content(ext, TorrentSize))>>

\* download_worker.py 145-196 and 113-120: _complete_download unless the
\* worker was stopped, then the finally clause
L_after_loop(s) ==
    IF s.w.stopped
    THEN [s EXCEPT !.w.running = FALSE, !.w.pc = "done"]
    ELSE LET d1 == [s.d EXCEPT !.completed = TRUE,
                               !.downloading = FALSE,
                               !.progress = Frac(1, 1)]
             failed == s.fault.file \in Written(s.d)
         IN IF failed /\ ~multi
            THEN \* open() of the single file raises: lines 195-196 log it,
                 \* the state is not saved and stop() is not called
                 [s EXCEPT !.d = d1,
                           !.raised = s.fault,
                           !.w.running = FALSE,
                           !.w.pc = "done"]
            ELSE [s EXCEPT !.d = d1,
                           !.disk = save_state(d1),
                           !.out = @ \o L_complete_download_files(s.d, s.fault.file),
                           !.raised = IF failed THEN s.fault ELSE @,
                           !.w.stopped = IF d1.auto_stop THEN TRUE ELSE @,
                           !.w.paused = IF d1.auto_stop THEN FALSE ELSE @,
                           !.w.running = FALSE,
                           !.w.pc = "done"]

RECURSIVE L_batch_top(_)

\* download_worker.py 109-111: state is saved only when downloaded_count is
\* a multiple of batch_size * 5
L_batch_end(s) ==
    L_batch_top([s EXCEPT
        !.disk = IF s.w.cnt % (L_BATCH_SIZE * SAVE_EVERY_BATCHES) = 0
                 THEN save_state(s.d) ELSE @,
        !.w.bs = s.w.bs + L_BATCH_SIZE])

\* download_worker.py 91-95: after the pause wait
L_piece_go(s) ==
    IF s.w.stopped THEN L_batch_end(s) ELSE [s EXCEPT !.w.pc = "dl"]

\* download_worker.py 83-89: head of the loop over the pieces of a batch;
\* no test of download.downloaded_pieces is made
L_piece_top(s) ==
    IF s.w.i >= Min(s.w.bs + L_BATCH_SIZE, NumPieces) THEN L_batch_end(s)
    ELSE IF s.w.stopped THEN L_batch_end(s)
    ELSE IF s.w.paused /\ ~s.w.stopped THEN [s EXCEPT !.w.pc = "pausewait"]
    ELSE L_piece_go(s)

\* download_worker.py 75-80: head of the batch loop
L_batch_top(s) ==
    IF s.w.bs >= NumPieces THEN L_after_loop(s)
    ELSE IF s.w.stopped THEN L_after_loop(s)
    ELSE L_piece_top([s EXCEPT !.w.i = s.w.bs])

\* download_worker.py 122-143: the part of _download_piece after its sleep;
\* an exception raised in it is logged there and nothing is updated
L_download_piece(dl, i, fault) ==
    IF fault.piece THEN dl ELSE [dl EXCEPT !.size = @ + PieceSize(i)]

\* variant of L_record: the pieces of the list are taken from its far end
L_record_Reversed(s) ==
    LET i == NumPieces - 1 - s.w.i
        cnt == s.w.cnt + 1
        d1 == L_download_piece(s.d, i, s.fault)
    IN [s EXCEPT !.d = [d1 EXCEPT !.pieces = @ \cup {i},
                                  !.progress = Frac(cnt, NumPieces)],
                 !.w.cnt = cnt,
                 !.w.pc = "delay",
                 !.raised = IF s.fault.piece THEN s.fault ELSE @,
                 !.rec = i]

\* download_worker.py 95-107: the piece is downloaded and recorded with the
\* task-local downloaded_count, then the task sleeps
L_record(s) ==
    LET i == s.w.i
        cnt == s.w.cnt + 1
        d1 == L_download_piece(s.d, i, s.fault)
    IN [s EXCEPT !.d = [d1 EXCEPT !.pieces = @ \cup {i},
                                  !.progress = Frac(cnt, NumPieces)],
                 !.w.cnt = cnt,
                 !.w.pc = "delay",
                 !.raised = IF s.fault.piece THEN s.fault ELSE @,
                 !.rec = i]

\* DownloadWorker._download_worker: one resumption of task k, in which the
\* environment raises fault
L_download_worker(k, fault) ==
    LET w == workers[k]
        s == [d |-> d, disk |-> disk, w |-> w, rec |-> NoPiece, out |-> out,
              fault |-> fault, raised |-> NoFault]
        waiting == w.paused /\ ~w.stopped
        t == CASE w.pc = "new" -> L_batch_top([s EXCEPT !.w.cnt = 0, !.w.bs = 0,
                                                        !.w.resumed = d.pieces # {}])
               [] w.pc = "pausewait" -> IF waiting THEN s ELSE L_piece_go(s)
               [] w.pc = "dl" -> L_record(s)
               [] w.pc = "delay" -> L_piece_top([s EXCEPT !.w.i = w.i + 1])
    IN /\ impl = "client"
       /\ w.pc \in {"new", "pausewait", "dl", "delay"}
       /\ d' = t.d
       /\ disk' = InFolder(t, t.disk, disk)
       /\ workers' = [workers EXCEPT ![k] = Retire(t.w)]
       /\ ret' = [op |-> "step", res |-> FALSE, piece |-> t.rec, fault |-> t.raised]
       /\ out' = InFolder(t, t.out, out)
       /\ folder' = [folder EXCEPT !.exists = @ \/ Recreated(t)]
       /\ twin' = Twin("step")
       /\ UNCHANGED <<others, data, ext, impl, multi, known, index, runs, nsel>>

\* bit_torrent_client.py 82-98 with DownloadWorker.start (30-45): a new
\* worker per call; its task is created unless the download is completed
L_start_download ==
    /\ impl = "client"
    /\ IF ~known
       THEN /\ ret' = Ret("start", FALSE)
            /\ UNCHANGED <<d, workers, runs, nsel>>
       ELSE /\ d.completed \/ CanSpawn
            /\ workers' = IF d.completed THEN workers
                          ELSE [workers EXCEPT ![Slot] =
                                   [FreeWorker EXCEPT !.pc = "new", !.running = TRUE]]
            /\ runs' = IF d.completed THEN runs ELSE runs + 1
            /\ d' = [d EXCEPT !.downloading = TRUE, !.paused = FALSE]
            /\ ret' = Ret("start", TRUE)
    /\ twin' = Twin("start")
    /\ UNCHANGED <<others, data, folder, ext, out, impl, multi, known, disk, index, nsel>>

\* bit_torrent_client.py 100-114: pause() is called on a worker built for
\* this call, not on the one whose task runs
L_pause_download ==
    /\ impl = "client"
    /\ IF known
       THEN /\ d' = [d EXCEPT !.paused = TRUE]
            /\ ret' = Ret("pause", TRUE)
       ELSE /\ d' = d
            /\ ret' = Ret("pause", FALSE)
    /\ twin' = Twin("pause")
    /\ UNCHANGED <<others, data, folder, ext, out, impl, multi, known, disk, index, workers, runs, nsel>>

\* bit_torrent_client.py 116-130
L_resume_download ==
    /\ impl = "client"
    /\ IF known
       THEN /\ d' = [d EXCEPT !.paused = FALSE]
            /\ ret' = Ret("resume", TRUE)
       ELSE /\ d' = d
            /\ ret' = Ret("resume", FALSE)
    /\ twin' = Twin("resume")
    /\ UNCHANGED <<others, data, folder, ext, out, impl, multi, known, disk, index, workers, runs, nsel>>

\* bit_torrent_client.py 132-147: stop() is called on a fresh worker too
L_stop_download ==
    /\ impl = "client"
    /\ IF known
       THEN /\ d' = [d EXCEPT !.downloading = FALSE, !.paused = FALSE]
            /\ workers' = Halt(workers)
            /\ ret' = Ret("stop", TRUE)
       ELSE /\ UNCHANGED <<d, workers>>
            /\ ret' = Ret("stop", FALSE)
    /\ twin' = Twin("stop")
    /\ UNCHANGED <<others, data, folder, ext, out, impl, multi, known, disk, index, runs, nsel>>

\* ================== impl = "service" (DownloadService -> Download -> State)
\* StoppedState.start / DownloadingState.start / PausedState.start /
\* CompletedState.start
DownloadState_start(dl) ==
    IF dl.state = "stopped"
    THEN Call([dl EXCEPT !.state = "downloading",
                         !.downloading = TRUE,
                         !.paused = FALSE], TRUE)
    ELSE Call(dl, FALSE)

\* variant of DownloadState_pause: DownloadingState.pause swaps the state
\* object and forgets the paused flag
DownloadState_pause_NoFlag(dl) ==
    IF dl.state = "downloading"
    THEN Call([dl EXCEPT !.state = "paused"], TRUE)
    ELSE Call(dl, FALSE)

\* <State>.pause
DownloadState_pause(dl) ==
    IF dl.state = "downloading"
    THEN Call([dl EXCEPT !.state = "paused", !.paused = TRUE], TRUE)
    ELSE Call(dl, FALSE)

\* <State>.resume
DownloadState_resume(dl) ==
    IF dl.state = "paused"
    THEN Call([dl EXCEPT !.state = "downloading", !.paused = FALSE], TRUE)
    ELSE Call(dl, FALSE)

\* <State>.stop
DownloadState_stop(dl) ==
    IF dl.state \in {"downloading", "paused"}
    THEN Call([dl EXCEPT !.state = "stopped",
                         !.downloading = FALSE,
                         !.paused = FALSE], TRUE)
    ELSE Call(dl, FALSE)

\* download_service.py 102-108 and models/download.py 278-284
S_start_download ==
    /\ impl = "service"
    /\ LET c == IF ~known THEN Call(d, FALSE)
                ELSE IF d.completed THEN Call(d, TRUE)
                ELSE DownloadState_start(d)
       IN /\ d' = c.d
          /\ ret' = Ret("start", c.res)
    /\ UNCHANGED <<aside, ext, out, impl, multi, known, disk, index, workers, runs, nsel>>

\* download_service.py 110-116 and models/download.py 286-290
S_pause_download ==
    /\ impl = "service"
    /\ LET c == IF ~known THEN Call(d, FALSE)
                ELSE IF ~d.downloading THEN Call(d, FALSE)
                ELSE DownloadState_pause(d)
       IN /\ d' = c.d
          /\ ret' = Ret("pause", c.res)
    /\ UNCHANGED <<aside, ext, out, impl, multi, known, disk, index, workers, runs, nsel>>

\* download_service.py 118-124 and models/download.py 292-296
S_resume_download ==
    /\ impl = "service"
    /\ LET c == IF ~known THEN Call(d, FALSE)
                ELSE IF ~d.downloading \/ ~d.paused THEN Call(d, FALSE)
                ELSE DownloadState_resume(d)
       IN /\ d' = c.d
          /\ ret' = Ret("resume", c.res)
    /\ UNCHANGED <<aside, ext, out, impl, multi, known, disk, index, workers, runs, nsel>>

\* download_service.py 126-132 and models/download.py 298-303: save_state
\* is called whatever the state returned
S_stop_download ==
    /\ impl = "service"
    /\ IF ~known
       THEN /\ UNCHANGED <<d, disk>>
            /\ ret' = Ret("stop", FALSE)
       ELSE LET c == DownloadState_stop(d)
            IN /\ d' = c.d
               /\ disk' = save_state(c.d)
               /\ ret' = Ret("stop", c.res)
    /\ UNCHANGED <<aside, ext, out, impl, multi, known, index, workers, runs, nsel>>

\* ------------------------------------------------------------ the system
\* No exception is raised in the steps of this specification; FaultSpec
\* below raises them.
Next ==
    \/ \E a \in BOOLEAN : parse_torrent(a)
    \/ \E a \in BOOLEAN : update_download_settings(a)
    \/ \E m \in [FilesOf(multi) -> BOOLEAN] : update_file_selection(m)
    \/ load_downloads
    \/ M_start_download
    \/ M_pause_download
    \/ M_resume_download
    \/ M_stop_download
    \/ \E k \in 1 .. MaxTasks : M_async_download_worker(k, NoFault)
    \/ L_start_download
    \/ L_pause_download
    \/ L_resume_download
    \/ L_stop_download
    \/ \E k \in 1 .. MaxTasks : L_download_worker(k, NoFault)
    \/ S_start_download
    \/ S_pause_download
    \/ S_resume_download
    \/ S_stop_download

Spec == Init /\ [][Next]_vars

\* ---------------------------------------------------------- type invariant
TypeOK ==
    /\ impl \in Impls
    /\ known \in BOOLEAN
    /\ d.pieces \subseteq PieceIdx
    /\ d.size \in Nat
    /\ \A k \in 1 .. MaxTasks : workers[k].i \in 0 .. NumPieces

\* ================================================================ parser
\* The metadata of a .torrent file after bencodepy.decode: which keys are
\* there and what they hold.  pieces is the length of the hash string;
\* files the declared lengths of the files, in order.
MaxPieceLen == 3
MaxLen == 4
MaxHashes == 3
MaxFiles == 2
MaxFileLen == 2

Absent == [has |-> FALSE, v |-> 0]

Opt(S) == {Absent} \cup {[has |-> TRUE, v |-> x] : x \in S}

FileLists == UNION {[1 .. n -> 1 .. MaxFileLen] : n \in 0 .. MaxFiles}

\* a hash string of whole hashes, or one byte short of it
PiecesLens ==
    {k * HASH_LEN : k \in 0 .. MaxHashes}
        \cup {k * HASH_LEN - 1 : k \in 1 .. MaxHashes}

Metas ==
    [wellformed : BOOLEAN,
     info : BOOLEAN,
     piece_length : Opt(0 .. MaxPieceLen),
     pieces : Opt(PiecesLens),
     name : BOOLEAN,
     length : Opt(0 .. MaxLen),
     files : {[has |-> FALSE, v |-> << >>]}
                 \cup {[has |-> TRUE, v |-> s] : s \in FileLists}]

RECURSIVE Sum(_)
Sum(s) == IF s = << >> THEN 0 ELSE Head(s) + Sum(Tail(s))

\* math.ceil(total_size / piece_length) for piece_length > 0
ceil(total_size, piece_length) == (total_size + piece_length - 1) \div piece_length

\* variant of piece_size: the last piece is not clamped to the remainder
piece_size_NoClamp(piece_length, total_size, i) == piece_length

\* piece_size = min(piece_length, total_size - i * piece_length)
piece_size(piece_length, total_size, i) ==
    Min(piece_length, total_size - i * piece_length)

\* pieces_hash[start:start + 20] of a string of n bytes: where the slice
\* starts and how many bytes it holds
piece_hash(n, start) ==
    [start |-> start, len |-> Min(start + HASH_LEN, n) - Min(start, n)]

\* the loop that builds the Piece objects
parse_pieces(total_size, piece_length, n) ==
    [j \in 1 .. ceil(total_size, piece_length) |->
        [index |-> j - 1,
         size |-> piece_size(piece_length, total_size, j - 1),
         hash |-> piece_hash(n, (j - 1) * HASH_LEN)]]

\* variant of add_files: every entry gets the offset of the first
RECURSIVE add_files_NoOffset(_, _)
add_files_NoOffset(files_info, offset) ==
    IF files_info = << >> THEN << >>
    ELSE <<[length |-> Head(files_info), offset |-> offset]>>
             \o add_files_NoOffset(Tail(files_info), offset)

\* Download.add_files, and the same loop in TorrentService.parse_torrent:
\* the entries of files_info from offset on
RECURSIVE add_files(_, _)
add_files(files_info, offset) ==
    IF files_info = << >> THEN << >>
    ELSE <<[length |-> Head(files_info), offset |-> offset]>>
             \o add_files(Tail(files_info), offset + Head(files_info))

\* DownloadService.create_download: the files_info it rebuilds from
\* torrent_info.files
create_download_files_info(files) == [j \in DOMAIN files |-> files[j].length]

\* TorrentService.validate_torrent_file
validate_torrent_file(m) ==
    /\ m.wellformed
    /\ m.info
    /\ m.piece_length.has /\ m.pieces.has
    /\ m.name
    /\ (m.length.has \/ m.files.has)

\* TorrentService.parse_torrent and lines 834-877 of app.py: every key
\* lookup that raises, and the division by a zero piece length, end in the
\* except clause
TorrentService_parse_torrent(m) ==
    IF \/ ~m.wellformed \/ ~m.info
       \/ ~m.piece_length.has \/ ~m.pieces.has
       \/ (~m.files.has /\ ~m.length.has)
       \/ m.piece_length.v = 0
    THEN NoParse
    ELSE LET total_size == IF m.files.has THEN Sum(m.files.v) ELSE m.length.v
         IN [ok |-> TRUE,
             name |-> m.name,
             total_size |-> total_size,
             piece_length |-> m.piece_length.v,
             pieces |-> parse_pieces(total_size, m.piece_length.v, m.pieces.v),
             is_multi_file |-> m.files.has,
             info_files |-> IF m.files.has THEN add_files(m.files.v, 0) ELSE << >>,
             files |-> << >>]

\* app.py BitTorrentClient.parse_torrent: the Download gets its files from
\* add_files(files_info)
M_parse(m) ==
    LET info == TorrentService_parse_torrent(m)
    IN IF ~info.ok THEN NoParse
       ELSE [info EXCEPT !.info_files = << >>,
                         !.files = IF info.is_multi_file
                                   THEN add_files(m.files.v, 0) ELSE << >>]

\* core BitTorrentClient.parse_torrent: validate, parse, create_download
L_parse(m) ==
    IF ~validate_torrent_file(m) THEN NoParse
    ELSE LET info == TorrentService_parse_torrent(m)
         IN IF ~info.ok THEN NoParse
            ELSE [info EXCEPT !.files =
                     IF info.is_multi_file
                     THEN add_files(create_download_files_info(info.info_files), 0)
                     ELSE << >>]

ParserInit ==
    /\ torrent = TheTorrent
    /\ impl \in {"mono", "client"}
    /\ meta \in Metas
    /\ parsed = NoParse
    /\ multi = FALSE
    /\ known = FALSE
    /\ d = NewDownload(FALSE, TRUE)
    /\ disk = NoFile
    /\ index = NoFile
    /\ workers = [k \in 1 .. MaxTasks |-> FreeWorker]
    /\ runs = 0
    /\ nsel = 0
    /\ ret = NoRet
    /\ ext = "bin"
    /\ out = << >>
    /\ cmd = NoCommand
    /\ chain = NoChain
    /\ reg = NoRegistry
    /\ data = NoData
    /\ folder = Kept
    /\ twin = NoTwin

\* parse_torrent(torrent_file, settings) on an empty registry
P_parse_torrent ==
    /\ ret.op = "none"
    /\ parsed' = IF impl = "mono" THEN M_parse(meta) ELSE L_parse(meta)
    /\ known' = parsed'.ok
    /\ index' = IF parsed'.ok THEN save_downloads_state(d) ELSE index
    /\ ret' = Ret("parse", parsed'.ok)
    /\ UNCHANGED <<impl, multi, d, disk, workers, runs, nsel, ext, out, meta, cmd,
                   chain, reg, torrent, data, folder, twin>>

ParserNext == P_parse_torrent

ParserSpec == ParserInit /\ [][ParserNext]_vars

\* ============================================= commands (design_patterns.py)
\* A StartDownloadCommand, PauseDownloadCommand or StopDownloadCommand bound
\* to the download d.  before is not a field of the object: it remembers
\* the flags and the progress d had when execute was last called.
MaxProgress == 2

CommandKinds == {"start", "pause", "stop"}

Snapshot(dl) ==
    [downloading |-> dl.downloading, paused |-> dl.paused, progress |-> dl.progress]

\* <Command>.__init__
NewCommand(kind) ==
    [kind |-> kind,
     phase |-> "new",
     has_previous_state |-> FALSE,
     previous_state |-> Snapshot(NewDownload(FALSE, TRUE)),
     was_downloading |-> FALSE,
     before |-> Snapshot(NewDownload(FALSE, TRUE))]

CommandInit ==
    /\ torrent = TheTorrent
    /\ cmd \in {NewCommand(kind) : kind \in CommandKinds}
    /\ d \in {[NewDownload(FALSE, TRUE) EXCEPT !.downloading = a,
                                               !.paused = b,
                                               !.progress = Frac(n, MaxProgress)] :
                 a \in BOOLEAN, b \in BOOLEAN, n \in 0 .. MaxProgress}
    /\ impl = "mono"
    /\ multi = FALSE
    /\ known = FALSE
    /\ disk = NoFile
    /\ index = NoFile
    /\ workers = [k \in 1 .. MaxTasks |-> FreeWorker]
    /\ runs = 0
    /\ nsel = 0
    /\ ret = NoRet
    /\ ext = "bin"
    /\ out = << >>
    /\ meta = NoMeta
    /\ parsed = NoParse
    /\ chain = NoChain
    /\ reg = NoRegistry
    /\ data = NoData
    /\ folder = Kept
    /\ twin = NoTwin

\* StartDownloadCommand.execute / PauseDownloadCommand.execute /
\* StopDownloadCommand.execute
Command_execute ==
    /\ cmd' = [cmd EXCEPT
                  !.phase = "executed",
                  !.before = Snapshot(d),
                  !.has_previous_state = IF cmd.kind = "pause" THEN @ ELSE TRUE,
                  !.previous_state = IF cmd.kind = "pause" THEN @ ELSE Snapshot(d),
                  !.was_downloading = IF cmd.kind = "pause" THEN d.downloading ELSE @]
    /\ d' = CASE cmd.kind = "start" -> [d EXCEPT !.downloading = TRUE, !.paused = FALSE]
              [] cmd.kind = "pause" -> [d EXCEPT !.paused = TRUE]
              [] cmd.kind = "stop" -> [d EXCEPT !.downloading = FALSE, !.paused = FALSE]
    /\ ret' = Ret("execute", TRUE)
    /\ UNCHANGED <<impl, multi, known, disk, index, workers, runs, nsel, ext, out,
                   meta, parsed, chain, reg, torrent, data, folder, twin>>

\* StartDownloadCommand.undo / PauseDownloadCommand.undo /
\* StopDownloadCommand.undo
Command_undo ==
    /\ cmd' = [cmd EXCEPT !.phase = "undone"]
    /\ d' = CASE cmd.kind = "start" ->
                   IF cmd.has_previous_state
                   THEN [d EXCEPT !.downloading = cmd.previous_state.downloading,
                                  !.paused = cmd.previous_state.paused]
                   ELSE d
              [] cmd.kind = "pause" ->
                   IF cmd.was_downloading THEN [d EXCEPT !.paused = FALSE] ELSE d
              [] cmd.kind = "stop" ->
                   IF cmd.has_previous_state
                   THEN [d EXCEPT !.downloading = cmd.previous_state.downloading,
                                  !.paused = cmd.previous_state.paused,
                                  !.progress = cmd.previous_state.progress]
                   ELSE d
    /\ ret' = Ret("undo", TRUE)
    /\ UNCHANGED <<impl, multi, known, disk, index, workers, runs, nsel, ext, out,
                   meta, parsed, chain, reg, torrent, data, folder, twin>>

CommandNext == Command_execute \/ Command_undo

CommandSpec == CommandInit /\ [][CommandNext]_vars

\* ================================================ a torrent of many pieces
\* The schedulers over a single-file torrent of BatchPieces pieces of one
\* byte, more than one batch of either implementation, from the state
\* parse_torrent leaves.  One task is modelled: runs starts one short of
\* MaxRuns.
BatchPieces == 21

BatchInit ==
    /\ torrent = [total_size |-> BatchPieces, piece_length |-> 1]
    /\ impl \in {"mono", "client"}
    /\ multi = FALSE
    /\ known = TRUE
    /\ d \in {NewDownload(FALSE, a) : a \in BOOLEAN}
    /\ disk = NoFile
    /\ index = save_downloads_state(d)
    /\ workers = [k \in 1 .. MaxTasks |-> FreeWorker]
    /\ runs = MaxRuns - 1
    /\ nsel = 0
    /\ ret = Ret("parse", TRUE)
    /\ ext = "bin"
    /\ out = << >>
    /\ meta = NoMeta
    /\ parsed = NoParse
    /\ cmd = NoCommand
    /\ chain = NoChain
    /\ reg = NoRegistry
    /\ data = NoData
    /\ folder = Kept
    /\ twin = NoTwin

\* a start and the steps of the scheduler it creates
BatchNext ==
    \/ M_start_download
    \/ \E k \in 1 .. MaxTasks : M_async_download_worker(k, NoFault)
    \/ L_start_download
    \/ \E k \in 1 .. MaxTasks : L_download_worker(k, NoFault)

BatchSpec == BatchInit /\ [][BatchNext]_vars

\* ========================================================== with exceptions
\* The schedulers when the environment raises exceptions in their steps,
\* from the state parse_torrent leaves: starts, stops, file-selection
\* updates and scheduler steps.  One task is modelled: runs starts one short
\* of MaxRuns.
Faults == {NoFault, PieceFault} \cup {Fault(FALSE, f) : f \in Written(d)}

FaultInit ==
    /\ torrent = TheTorrent
    /\ impl \in {"mono", "client"}
    /\ multi \in BOOLEAN
    /\ known = TRUE
    /\ d \in {NewDownload(multi, a) : a \in BOOLEAN}
    /\ disk = NoFile
    /\ index = save_downloads_state(d)
    /\ workers = [k \in 1 .. MaxTasks |-> FreeWorker]
    /\ runs = MaxRuns - 1
    /\ nsel = 0
    /\ ret = Ret("parse", TRUE)
    /\ ext \in IF impl = "client" THEN Exts ELSE {"bin"}
    /\ out = << >>
    /\ meta = NoMeta
    /\ parsed = NoParse
    /\ cmd = NoCommand
    /\ chain = NoChain
    /\ reg = NoRegistry
    /\ data = NoData
    /\ folder = Kept
    /\ twin = NoTwin

FaultNext ==
    \/ \E m \in [FilesOf(multi) -> BOOLEAN] : update_file_selection(m)
    \/ M_start_download
    \/ M_stop_download
    \/ \E k \in 1 .. MaxTasks, f \in Faults : M_async_download_worker(k, f)
    \/ L_start_download
    \/ L_stop_download
    \/ \E k \in 1 .. MaxTasks, f \in Faults : L_download_worker(k, f)

FaultSpec == FaultInit /\ [][FaultNext]_vars

\* ======================================================= with piece data
\* app.py with the origin of every piece's data and of the written files
\* followed, from the state parse_torrent leaves: starts, stops,
\* file-selection updates and scheduler steps.
DataInit ==
    /\ torrent = TheTorrent
    /\ impl = "mono"
    /\ multi \in BOOLEAN
    /\ known = TRUE
    /\ d \in {NewDownload(multi, a) : a \in BOOLEAN}
    /\ disk = NoFile
    /\ index = save_downloads_state(d)
    /\ workers = [k \in 1 .. MaxTasks |-> FreeWorker]
    /\ runs = 0
    /\ nsel = 0
    /\ ret = Ret("parse", TRUE)
    /\ ext = "bin"
    /\ out = << >>
    /\ meta = NoMeta
    /\ parsed = NoParse
    /\ cmd = NoCommand
    /\ chain = NoChain
    /\ reg = NoRegistry
    /\ data = TrackedData
    /\ folder = Kept
    /\ twin = NoTwin

DataNext ==
    \/ \E m \in [FilesOf(multi) -> BOOLEAN] : update_file_selection(m)
    \/ M_start_download
    \/ M_stop_download
    \/ \E k \in 1 .. MaxTasks : M_async_download_worker(k, NoFault)

DataSpec == DataInit /\ [][DataNext]_vars

\* ======================================================== side by side
\* The layered client and app.py on the same torrent, from the state
\* parse_torrent leaves: every call goes to both, and every scheduler step
\* resumes the task of each.  One task is created on each side.
PairInit ==
    /\ torrent = TheTorrent
    /\ impl = "client"
    /\ multi \in BOOLEAN
    /\ known = TRUE
    /\ d \in {NewDownload(multi, a) : a \in BOOLEAN}
    /\ disk = NoFile
    /\ index = save_downloads_state(d)
    /\ workers = [k \in 1 .. MaxTasks |-> FreeWorker]
    /\ runs = MaxRuns - 1
    /\ nsel = 0
    /\ ret = Ret("parse", TRUE)
    /\ ext = "bin"
    /\ out = << >>
    /\ meta = NoMeta
    /\ parsed = NoParse
    /\ cmd = NoCommand
    /\ chain = NoChain
    /\ reg = NoRegistry
    /\ data = NoData
    /\ folder = Kept
    /\ twin = [on |-> TRUE,
               s |-> [d |-> d, disk |-> disk, w |-> FreeWorker, rec |-> NoPiece,
                      out |-> << >>, fault |-> NoFault, raised |-> NoFault],
               res |-> TRUE]

PairNext ==
    \/ L_start_download
    \/ L_pause_download
    \/ L_resume_download
    \/ L_stop_download
    \/ \E k \in 1 .. MaxTasks : L_download_worker(k, NoFault)

PairSpec == PairInit /\ [][PairNext]_vars

\* ======================================================= fair scheduling
\* app.py and the layered client from the state parse_torrent leaves, with
\* one scheduler task, started and never stopped: start, pause, resume and
\* the scheduler steps.
LiveInit ==
    /\ torrent = TheTorrent
    /\ impl \in {"mono", "client"}
    /\ multi \in BOOLEAN
    /\ known = TRUE
    /\ d \in {NewDownload(multi, a) : a \in BOOLEAN}
    /\ disk = NoFile
    /\ index = save_downloads_state(d)
    /\ workers = [k \in 1 .. MaxTasks |-> FreeWorker]
    /\ runs = MaxRuns - 1
    /\ nsel = 0
    /\ ret = Ret("parse", TRUE)
    /\ ext = "bin"
    /\ out = << >>
    /\ meta = NoMeta
    /\ parsed = NoParse
    /\ cmd = NoCommand
    /\ chain = NoChain
    /\ reg = NoRegistry
    /\ data = NoData
    /\ folder = Kept
    /\ twin = NoTwin

LiveNext ==
    \/ M_start_download
    \/ M_pause_download
    \/ M_resume_download
    \/ \E k \in 1 .. MaxTasks : M_async_download_worker(k, NoFault)
    \/ L_start_download
    \/ L_pause_download
    \/ L_resume_download
    \/ \E k \in 1 .. MaxTasks : L_download_worker(k, NoFault)

\* a resumption of task k that takes the task further
Advance(k) ==
    /\ M_async_download_worker(k, NoFault) \/ L_download_worker(k, NoFault)
    /\ workers'[k] # workers[k]

\* The event loop resumes a task whose sleep is over (asyncio.sleep at
\* app.py 442, 456, 462-465, 494 and download_worker.py 89, 103-107, 126):
\* a task that can go further again and again does go further.  Every
\* pause is followed by a resume: a paused download is resumed.
LiveFair ==
    /\ \A k \in 1 .. MaxTasks : SF_vars(Advance(k))
    /\ WF_vars(d.paused /\ (M_resume_download \/ L_resume_download))

LiveSpec == LiveInit /\ [][LiveNext]_vars /\ LiveFair

\* ============================================================= removal
\* BitTorrentClient.remove_download (app.py 965-983) and
\* DownloadService.remove_download (download_service.py 134-158):
\* create_task(download.stop_download()), which runs later; rmtree of the
\* download folder; the id leaves the registry and the global index is
\* saved without it.  No scheduler task is cancelled.
remove_download ==
    /\ IF known
       THEN /\ known' = FALSE
            /\ index' = NoFile
            /\ disk' = NoFile
            /\ out' = << >>
            /\ folder' = [exists |-> FALSE, removed |-> TRUE, stopping |-> TRUE]
            /\ ret' = Ret("remove", TRUE)
       ELSE /\ UNCHANGED <<known, index, disk, out, folder>>
            /\ ret' = Ret("remove", FALSE)
    /\ UNCHANGED <<others, data, twin, ext, impl, multi, d, workers, runs, nsel>>

\* the task remove_download created runs Download.stop_download: app.py
\* 398-408, or models/download.py 298-303 with the State object
Download_stop_download ==
    /\ folder.stopping
    /\ LET c == IF impl = "mono"
                THEN Call([d EXCEPT !.downloading = FALSE, !.paused = FALSE], TRUE)
                ELSE DownloadState_stop(d)
       IN /\ d' = c.d
          /\ disk' = IF folder.exists THEN save_state(c.d) ELSE disk
          /\ ret' = Ret("stopped", c.res)
    /\ workers' = Halt(workers)
    /\ folder' = [folder EXCEPT !.stopping = FALSE]
    /\ UNCHANGED <<others, data, twin, ext, out, impl, multi, known, index, runs, nsel>>

\* app.py and the layered client from the state parse_torrent leaves, with
\* one scheduler task: start, scheduler steps, removal and the stop task
RemoveInit ==
    /\ torrent = TheTorrent
    /\ impl \in {"mono", "client"}
    /\ multi \in BOOLEAN
    /\ known = TRUE
    /\ d \in {NewDownload(multi, a) : a \in BOOLEAN}
    /\ disk = NoFile
    /\ index = save_downloads_state(d)
    /\ workers = [k \in 1 .. MaxTasks |-> FreeWorker]
    /\ runs = MaxRuns - 1
    /\ nsel = 0
    /\ ret = Ret("parse", TRUE)
    /\ ext \in IF impl = "client" THEN Exts ELSE {"bin"}
    /\ out = << >>
    /\ meta = NoMeta
    /\ parsed = NoParse
    /\ cmd = NoCommand
    /\ chain = NoChain
    /\ reg = NoRegistry
    /\ data = NoData
    /\ folder = Kept
    /\ twin = NoTwin

RemoveNext ==
    \/ M_start_download
    \/ \E k \in 1 .. MaxTasks : M_async_download_worker(k, NoFault)
    \/ L_start_download
    \/ \E k \in 1 .. MaxTasks : L_download_worker(k, NoFault)
    \/ remove_download
    \/ Download_stop_download

RemoveSpec == RemoveInit /\ [][RemoveNext]_vars

\* ================================================== a store of several ids
\* The global index and the state.json files of the torrent ids 1..MaxIds,
\* as earlier runs of the program and deletions made from outside left
\* them, and the registry load_downloads builds at startup.  The index is a
\* dict; its entries are visited in the order of the ids.
MaxIds == 3

Ids == 1 .. MaxIds

\* the state.json a download with its first n pieces downloaded saves
StateFiles ==
    {save_state([NewDownload(FALSE, TRUE) EXCEPT
                     !.pieces = 0 .. (n - 1),
                     !.size = SumSizes(0 .. (n - 1)),
                     !.completed = (n = NumPieces)]) : n \in 0 .. NumPieces}

LoadInit ==
    /\ torrent = TheTorrent
    /\ multi = FALSE
    /\ reg \in {r \in [loaded : {FALSE},
                       index : [Ids -> {NoFile} \cup
                                  {save_downloads_state(NewDownload(FALSE, a)) :
                                      a \in BOOLEAN}],
                       files : [Ids -> {NoFile} \cup StateFiles],
                       keys : {{}},
                       downloads : {[id \in Ids |-> NewDownload(FALSE, TRUE)]}] :
                  \A id \in Ids : r.files[id].exists => r.index[id].exists}
    /\ impl \in {"mono", "client"}
    /\ known = FALSE
    /\ d = NewDownload(FALSE, TRUE)
    /\ disk = NoFile
    /\ index = NoFile
    /\ workers = [k \in 1 .. MaxTasks |-> FreeWorker]
    /\ runs = 0
    /\ nsel = 0
    /\ ret = NoRet
    /\ ext = "bin"
    /\ out = << >>
    /\ meta = NoMeta
    /\ parsed = NoParse
    /\ cmd = NoCommand
    /\ chain = NoChain
    /\ data = NoData
    /\ folder = Kept
    /\ twin = NoTwin

RECURSIVE load_entries_StopAtMissing(_, _)
\* variant of load_entries: the loop ends at the first entry whose state
\* file is missing
load_entries_StopAtMissing(id, r) ==
    IF id > MaxIds THEN r
    ELSE IF ~r.index[id].exists THEN load_entries_StopAtMissing(id + 1, r)
    ELSE IF r.files[id].exists
    THEN load_entries_StopAtMissing(id + 1,
             [r EXCEPT !.keys = @ \cup {id},
                       !.downloads[id] = load_download(r.index[id], r.files[id])])
    ELSE r

RECURSIVE load_entries(_, _)
\* load_downloads 190-231: the loop over state['downloads'] from entry id on
load_entries(id, r) ==
    IF id > MaxIds THEN r
    ELSE IF ~r.index[id].exists THEN load_entries(id + 1, r)
    ELSE IF r.files[id].exists
    THEN load_entries(id + 1,
             [r EXCEPT !.keys = @ \cup {id},
                       !.downloads[id] = load_download(r.index[id], r.files[id])])
    ELSE load_entries(id + 1, r)

\* a state.json is deleted from outside before the program starts
delete_state_file(id) ==
    /\ ~reg.loaded
    /\ reg.files[id].exists
    /\ reg' = [reg EXCEPT !.files[id] = NoFile]
    /\ UNCHANGED <<impl, multi, known, d, disk, index, workers, runs, nsel, ret,
                   ext, out, meta, parsed, cmd, chain, torrent, data, folder, twin>>

\* load_downloads at startup, on an empty registry
R_load_downloads ==
    /\ ~reg.loaded
    /\ reg' = [load_entries(1, reg) EXCEPT !.loaded = TRUE]
    /\ ret' = Ret("load", TRUE)
    /\ UNCHANGED <<impl, multi, known, d, disk, index, workers, runs, nsel,
                   ext, out, meta, parsed, cmd, chain, torrent, data, folder, twin>>

LoadNext ==
    \/ \E id \in Ids : delete_state_file(id)
    \/ R_load_downloads

LoadSpec == LoadInit /\ [][LoadNext]_vars

\* ===================================== handler chain (design_patterns.py)
\* A download handed to the chain built by setup_handler_chain.  The chain
\* reads the length of download.pieces, download.total_size and the free
\* space shutil.disk_usage reports for download.download_dir; the download
\* is a Download of models/download.py, the class that has a download_dir.
\* The handlers await one another without suspending, so one call of
\* handle is one step.
MaxChainPieces == 1
MaxSpace == 2

\* what a handle call gives back: the download, the result, and whether and
\* with what result start_download was called
Handled(dl, res, invoked, started) ==
    [d |-> dl, res |-> res, invoked |-> invoked, started |-> started]

\* Download.start_download of models/download.py
Download_start_download(dl) ==
    IF dl.completed THEN Call(dl, TRUE) ELSE DownloadState_start(dl)

\* ExecutionHandler.handle
ExecutionHandler_handle(dl, rq) ==
    LET c == Download_start_download(dl)
    IN Handled(c.d, c.res, TRUE, c.res)

\* variant of ResourceCheckHandler_handle: the free space is not compared
\* with the required space
ResourceCheckHandler_handle_NoCheck(dl, rq) ==
    ExecutionHandler_handle(dl, rq)

\* ResourceCheckHandler.handle followed by _handle_next
ResourceCheckHandler_handle(dl, rq) ==
    IF rq.free < rq.total_size
    THEN Handled(dl, FALSE, FALSE, FALSE)
    ELSE ExecutionHandler_handle(dl, rq)

\* ValidationHandler.handle followed by _handle_next
ValidationHandler_handle(dl, rq) ==
    IF rq.pieces = 0
    THEN Handled(dl, FALSE, FALSE, FALSE)
    ELSE IF rq.total_size <= 0
    THEN Handled(dl, FALSE, FALSE, FALSE)
    ELSE ResourceCheckHandler_handle(dl, rq)

\* setup_handler_chain: the head of validation -> resource -> execution
setup_handler_chain(dl, rq) == ValidationHandler_handle(dl, rq)

ChainInit ==
    /\ torrent = TheTorrent
    /\ chain \in [handled : {FALSE},
                  pieces : 0 .. MaxChainPieces,
                  total_size : (0 - 1) .. MaxSpace,
                  free : 0 .. MaxSpace,
                  invoked : {FALSE},
                  started : {FALSE}]
    /\ d \in {[NewDownload(FALSE, TRUE) EXCEPT !.state = st,
                                               !.downloading = (st # "stopped"),
                                               !.paused = (st = "paused"),
                                               !.completed = c] :
                 st \in {"stopped", "downloading", "paused"}, c \in BOOLEAN}
    /\ impl = "service"
    /\ multi = FALSE
    /\ known = TRUE
    /\ disk = NoFile
    /\ index = NoFile
    /\ workers = [k \in 1 .. MaxTasks |-> FreeWorker]
    /\ runs = 0
    /\ nsel = 0
    /\ ret = NoRet
    /\ ext = "bin"
    /\ out = << >>
    /\ meta = NoMeta
    /\ parsed = NoParse
    /\ cmd = NoCommand
    /\ reg = NoRegistry
    /\ data = NoData
    /\ folder = Kept
    /\ twin = NoTwin

\* chain.handle(download): every call starts with no start_download made
Chain_handle ==
    /\ LET h == setup_handler_chain(d, chain)
       IN /\ d' = h.d
          /\ chain' = [chain EXCEPT !.handled = TRUE,
                                    !.invoked = h.invoked,
                                    !.started = h.started]
          /\ ret' = Ret("handle", h.res)
    /\ UNCHANGED <<impl, multi, known, disk, index, workers, runs, nsel, ext, out,
                   meta, parsed, cmd, reg, torrent, data, folder, twin>>

ChainNext == Chain_handle

ChainSpec == ChainInit /\ [][ChainNext]_vars

\* ============================================================== properties
\* The state of section 4.2: the tag the State classes keep for the
\* service, the flags for the two implementations that have no tag in use.
TagOf(im, dl) ==
    IF dl.completed THEN "completed"
    ELSE IF im = "service" THEN dl.state
    ELSE IF ~dl.downloading THEN "stopped"
    ELSE IF dl.paused THEN "paused"
    ELSE "downloading"

Tag == TagOf(impl, d)

ControlOps == {"start", "pause", "resume", "stop"}

Progressed == <<d.pieces, d.size, d.progress>>

\* C1: each of the five legal transitions, taken on a known download,
\* returns true and leaves the flags of the target state: start in Stopped
\* gives Downloading, pause in Downloading gives Paused, resume in Paused
\* gives Downloading, stop in Downloading or Paused gives Stopped.
C1_LegalTransitions ==
    [][known =>
        /\ (ret'.op = "start" /\ Tag = "stopped") =>
              (ret'.res /\ d'.downloading /\ ~d'.paused
                 /\ TagOf(impl, d') = "downloading")
        /\ (ret'.op = "pause" /\ Tag = "downloading") =>
              (ret'.res /\ d'.paused /\ TagOf(impl, d') = "paused")
        /\ (ret'.op = "resume" /\ Tag = "paused") =>
              (ret'.res /\ ~d'.paused /\ TagOf(impl, d') = "downloading")
        /\ (ret'.op = "stop" /\ Tag \in {"downloading", "paused"}) =>
              (ret'.res /\ ~d'.downloading /\ ~d'.paused
                 /\ TagOf(impl, d') = "stopped")]_vars

\* a download stopped from Paused, after start and pause
C1_Witness ==
    /\ impl = "service"
    /\ ret.op = "stop" /\ ret.res
    /\ d.state = "stopped"
    /\ disk.exists

\* C2: every (state, operation) pair outside the table returns false.
C2_IllegalRejected ==
    [][known =>
        /\ (ret'.op = "start" /\ Tag \in {"downloading", "paused"}) => ~ret'.res
        /\ (ret'.op = "pause" /\ Tag \in {"stopped", "paused", "completed"}) => ~ret'.res
        /\ (ret'.op = "resume" /\ Tag \in {"stopped", "downloading", "completed"}) => ~ret'.res
        /\ (ret'.op = "stop" /\ Tag \in {"stopped", "completed"}) => ~ret'.res]_vars

\* C3: a control call that returns false changes neither the Download nor
\* its state file.
C3_RejectedNoEffect ==
    [][(ret'.op \in ControlOps /\ ~ret'.res) => (d' = d /\ disk' = disk)]_vars

C5_OneScheduler == Cardinality(Active) <= 1

\* C6: while the Download is Paused no scheduler step changes
\* downloadedPieces, downloadedBytes or progressPercent.
C6_PausedFrozen ==
    [][(known /\ Tag = "paused" /\ ret'.op = "step") =>
          Progressed' = Progressed]_vars

\* C7: while the Download is Downloading and one scheduler task is alive,
\* no step of it lowers downloadedBytes or progressPercent.
C7_Monotone ==
    [][(/\ known /\ Tag = "downloading" /\ ret'.op = "step"
        /\ Cardinality(Alive) = 1) =>
          (d.size <= d'.size /\ FracLeq(d.progress, d'.progress))]_vars

\* C8: the scheduler task of a Downloading download, running alone, never
\* records a piece index that is already in downloadedPieces.
C8_NoPieceTwice ==
    [][(/\ ret'.op = "step" /\ ret'.piece # NoPiece
        /\ known /\ Tag = "downloading"
        /\ Cardinality(Alive) = 1) =>
          ret'.piece \notin d.pieces]_vars

\* C9: when the only scheduler task alive is one that began with a
\* non-empty downloadedPieces and it records the last missing piece of a
\* Downloading download, downloadedBytes equals totalSize and
\* progressPercent is 100.
C9_ResumeAccounting ==
    [][(/\ ret'.op = "step" /\ ret'.piece # NoPiece
        /\ known /\ Tag = "downloading"
        /\ ret'.piece \notin d.pieces
        /\ d'.pieces = PieceIdx
        /\ \E k \in 1 .. MaxTasks : Alive = {k} /\ workers[k].resumed) =>
          (d'.size = TorrentSize /\ FracEq(d'.progress, Frac(1, 1)))]_vars

\* C10: a restart and load of a Download whose state file holds its current
\* values rebuilds the same downloadedPieces, downloadedBytes, completed
\* flag and per-file selected flags.
C10_RoundTrip ==
    [][(/\ ret'.op = "load"
        /\ known /\ index.exists /\ disk = save_state(d)) =>
          (/\ known'
           /\ d'.pieces = d.pieces
           /\ d'.size = d.size
           /\ d'.completed = d.completed
           /\ d'.sel = d.sel)]_vars

\* the writes the step made to the download folder, in the order made
Pass == SubSeq(out', Len(out) + 1, Len(out'))

\* the scheduler task that stepped has left its piece loop for good
Finished == \E k \in 1 .. MaxTasks : workers[k].pc # "free" /\ workers'[k].pc = "free"

\* targetBytes of section 4.3 for the selection of dl
TargetBytes(dl) == IF multi THEN SumLen(DOMAIN dl.sel, dl.sel) ELSE TorrentSize

\* the state tag of the Download object: models/download.py keeps one in
\* self.state, app.py has the flags only
StateTag(im, dl) == IF im = "mono" THEN TagOf(im, dl) ELSE dl.state

\* C11: the step that completes a multi-file download, and any step that
\* writes to its folder, writes exactly the files selected at that moment,
\* in declared order, each with its declared length; no unselected file is
\* written.
C11_SelectedFilesWritten ==
    [][(/\ multi /\ known /\ ret'.op = "step"
        /\ (out' # out \/ (~d.completed /\ d'.completed))) =>
          (/\ \A j \in 1 .. Len(Pass) : d.sel[Pass[j].path]
           /\ \A f \in FilesOf(multi) :
                 d.sel[f] => \E j \in 1 .. Len(Pass) : Pass[j] = Write(f, FileLen(f))
           /\ \A j, k \in 1 .. Len(Pass) : j < k => Pass[j].path < Pass[k].path)]_vars

\* C12: after a piece is recorded by the only scheduler task alive,
\* progressPercent is downloadedBytes / targetBytes * 100, with targetBytes
\* the total size (single-file) or the sum of the lengths of the files
\* selected now (multi-file).
C12_ProgressFormula ==
    [][(/\ ret'.op = "step" /\ ret'.piece # NoPiece
        /\ known /\ Cardinality(Alive) = 1
        /\ TargetBytes(d') > 0) =>
          FracEq(d'.progress, Frac(d'.size, TargetBytes(d')))]_vars

\* C15: the step that completes a single-file download leaves every piece
\* index in downloadedPieces and writes one file, named after the torrent,
\* of exactly totalSize bytes, whatever the extension of the name.
C15_SingleFileComplete ==
    [][(/\ ~multi /\ known /\ ret'.op = "step"
        /\ ~d.completed /\ d'.completed) =>
          (/\ d'.pieces = PieceIdx
           /\ Pass = <<Write(SingleFile, TorrentSize)>>)]_vars

\* C16: with autoStop true, the scheduler task of a Downloading download
\* that leaves its loop with every piece recorded makes the Download
\* Completed (completed flag and state tag), and on a Completed download
\* start succeeds without effect while pause, resume and stop are rejected
\* without effect.
C16_AutoStopCompletes ==
    [][known =>
        /\ (/\ ret'.op = "step" /\ d.auto_stop /\ Tag = "downloading"
            /\ Cardinality(Alive) = 1 /\ Finished
            /\ d'.pieces = PieceIdx) =>
              (d'.completed /\ StateTag(impl, d') = "completed")
        /\ (d.completed /\ d.auto_stop /\ ret'.op = "start") =>
              (ret'.res /\ d' = d)
        /\ (d.completed /\ d.auto_stop /\ ret'.op \in {"pause", "resume", "stop"}) =>
              (~ret'.res /\ d' = d)]_vars

\* C17: with autoStop false, the scheduler task of a Downloading download
\* that leaves its loop with every piece recorded leaves downloading true
\* and progressPercent at 100.
C17_NoAutoStopStays ==
    [][(/\ known /\ ret'.op = "step" /\ ~d.auto_stop /\ Tag = "downloading"
        /\ Cardinality(Alive) = 1 /\ Finished
        /\ d'.pieces = PieceIdx) =>
          (d'.downloading /\ FracEq(d'.progress, Frac(1, 1)))]_vars

\* ---------------------------------------------------- parser properties
\* the sizes of the pieces parsed, in index order
PieceSizes == [j \in DOMAIN parsed.pieces |-> parsed.pieces[j].size]

\* offsets start at 0, each entry ends where the next begins, the lengths
\* are those declared and sum to total
Contiguous(files, declared, total) ==
    /\ Len(files) = Len(declared)
    /\ \A j \in DOMAIN files : files[j].length = declared[j]
    /\ files # << >> => files[1].offset = 0
    /\ \A j \in 1 .. (Len(files) - 1) :
          files[j].offset + files[j].length = files[j + 1].offset
    /\ Sum([j \in DOMAIN files |-> files[j].length]) = total

\* C13: a torrent parsed with totalSize > 0 and pieceLength > 0 has
\* n = ceil(totalSize / pieceLength) pieces, indexed 0..n-1; every piece but
\* the last has size pieceLength, the last has totalSize - (n-1)*pieceLength,
\* and the sizes sum to totalSize.
C13_PieceLayout ==
    (parsed.ok /\ parsed.total_size > 0 /\ parsed.piece_length > 0) =>
        LET n == Len(parsed.pieces)
        IN /\ (n - 1) * parsed.piece_length < parsed.total_size
           /\ parsed.total_size <= n * parsed.piece_length
           /\ \A j \in 1 .. n :
                 /\ parsed.pieces[j].index = j - 1
                 /\ parsed.pieces[j].size =
                        IF j < n THEN parsed.piece_length
                        ELSE parsed.total_size - (n - 1) * parsed.piece_length
           /\ Sum(PieceSizes) = parsed.total_size

\* a torrent parsed into several pieces, the last one shorter than the rest
C13_Witness ==
    /\ parsed.ok
    /\ Len(parsed.pieces) >= 2
    /\ parsed.pieces[Len(parsed.pieces)].size < parsed.piece_length

\* C14: the file entries of a parsed multi-file torrent, those of the
\* Download and those of the parser's TorrentInfo, start at offset 0, are
\* contiguous in declared order and have lengths summing to totalSize.
C14_FileLayout ==
    (parsed.ok /\ parsed.is_multi_file) =>
        /\ Contiguous(parsed.files, meta.files.v, parsed.total_size)
        /\ impl = "client" =>
              Contiguous(parsed.info_files, meta.files.v, parsed.total_size)

\* a torrent of several files parsed through the service and create_download
C14_Witness ==
    /\ impl = "client"
    /\ parsed.ok /\ parsed.is_multi_file
    /\ Len(parsed.files) >= 2
    /\ parsed.files[2].offset > 0

\* metadata the parser contract of section 3 rejects
Incomplete(m) ==
    \/ ~m.wellformed \/ ~m.info
    \/ ~m.piece_length.has \/ ~m.pieces.has
    \/ ~m.name
    \/ (~m.length.has /\ ~m.files.has)

\* C18: parse_torrent on incomplete metadata returns (None, False), adds no
\* Download to the registry and writes no entry to the global index.
C18_IncompleteRejected ==
    (ret.op = "parse" /\ Incomplete(meta)) =>
        (~ret.res /\ ~parsed.ok /\ ~known /\ ~index.exists)

\* C19: a parse of complete metadata succeeds only if the hash string is a
\* whole number of 20-byte hashes, at least one per piece, and then the
\* hash of piece i is the 20 bytes at offset 20 * i.
C19_HashSlices ==
    (ret.op = "parse" /\ ret.res /\ ~Incomplete(meta)) =>
        /\ meta.pieces.v % HASH_LEN = 0
        /\ meta.pieces.v >= Len(parsed.pieces) * HASH_LEN
        /\ \A j \in DOMAIN parsed.pieces :
              parsed.pieces[j].hash = [start |-> (j - 1) * HASH_LEN, len |-> HASH_LEN]

\* --------------------------------------------------- command properties
\* C20: undo called right after execute leaves the download's downloading
\* and paused flags, and for StopDownloadCommand its download_progress, as
\* they were when execute was called.
C20_UndoRestores ==
    [][(cmd.phase = "executed" /\ cmd'.phase = "undone") =>
          (/\ d'.downloading = cmd.before.downloading
           /\ d'.paused = cmd.before.paused
           /\ cmd.kind = "stop" => d'.progress = cmd.before.progress)]_vars

InHand == {"piecewait", "pausewait", "throttle", "dl"}

\* the step takes up, for some task, a piece the task did not have in hand
TakesUp ==
    \E k \in 1 .. MaxTasks :
        /\ workers'[k].pc \in InHand
        /\ ~(workers[k].pc \in InHand /\ workers[k].i = workers'[k].i)

\* C22: once stop has returned true on a download whose pieces are not all
\* downloaded, the scheduler step that follows takes up no further piece,
\* does not set completed and writes no output file.
C22_StopObserved ==
    [][(known /\ ret.op = "stop" /\ ret.res /\ d.pieces # PieceIdx
          /\ ret'.op = "step") =>
         (~TakesUp /\ ~d'.completed /\ out' = out)]_vars

\* C23: a task that was in the pause wait of a piece when the download was
\* stopped marks no piece afterwards, neither that one nor a later one.
C23_StoppedInPauseWait ==
    [][\A k \in 1 .. MaxTasks :
          (workers[k].halted /\ workers'[k] # workers[k] /\ ret'.op = "step") =>
             ret'.piece = NoPiece]_vars

\* C24: a piece newly added to downloadedPieces has an index above every
\* index already in it.
C24_IncreasingOrder ==
    [][\A j \in d'.pieces \ d.pieces :
          ret'.op = "step" => \A i \in d.pieces : j > i]_vars

\* the second task of a download has added a piece above the ones it found
C24_Witness ==
    /\ ret.op = "step"
    /\ ret.piece > 0
    /\ runs > 1
    /\ d.pieces = 0 .. ret.piece

\* the step took a task past the end of a batch and on into the next one
BatchEnded ==
    \E k \in 1 .. MaxTasks :
        /\ workers[k].pc \notin {"free", "new"}
        /\ workers'[k].pc # "free"
        /\ workers'[k].bs > workers[k].bs

\* C25: when a scheduler step ends a batch, state.json holds the
\* downloaded pieces and the downloaded size the download has in memory.
C25_BatchCheckpoint ==
    [][(ret'.op = "step" /\ BatchEnded) =>
         (/\ disk'.exists
          /\ disk'.downloaded_pieces = d'.pieces
          /\ disk'.downloaded_size = d'.size)]_vars

\* ------------------------------------------------------------ persistence
\* C26: when pause, resume, stop or a file-selection update returns true,
\* state.json holds what save_state writes for the download as the call
\* left it; when a settings update returns true, the global index does.
C26_SaveOnEveryOperation ==
    [][(known /\ ret'.res) =>
         /\ (\/ ret'.op = "pause" /\ Tag = "downloading"
             \/ ret'.op = "resume" /\ Tag = "paused"
             \/ ret'.op = "stop" /\ Tag \in {"downloading", "paused"}
             \/ ret'.op = "select") =>
               disk' = save_state(d')
         /\ ret'.op = "settings" => index' = save_downloads_state(d')]_vars

\* C27: after load_downloads the registry holds exactly the ids of the
\* index whose state.json exists, each with the pieces, size and completed
\* flag of its file and the settings of its index entry; an indexed id
\* with no state.json is left out and changes nothing for the others.
C27_LoadSkipsMissing ==
    reg.loaded =>
        \A id \in Ids :
            /\ id \in reg.keys <=> (reg.index[id].exists /\ reg.files[id].exists)
            /\ id \in reg.keys =>
                  /\ reg.downloads[id].pieces = reg.files[id].downloaded_pieces
                  /\ reg.downloads[id].size = reg.files[id].downloaded_size
                  /\ reg.downloads[id].completed = reg.files[id].completed
                  /\ reg.downloads[id].auto_stop = reg.index[id].auto_stop

\* an indexed id without state.json was skipped and a later id was loaded
C27_Witness ==
    /\ reg.loaded
    /\ \E i \in Ids, j \in Ids :
          /\ i < j
          /\ reg.index[i].exists /\ ~reg.files[i].exists /\ i \notin reg.keys
          /\ j \in reg.keys /\ reg.downloads[j].pieces # {}

\* ----------------------------------------------------------------- errors
\* the task whose step this is
Stepped(k) == workers[k].pc # "free" /\ workers'[k] # workers[k]

\* C28: a scheduler step in which the per-piece step raises marks no piece,
\* ends the task, and leaves the download not downloading and not
\* completed.
C28_PieceErrorAborts ==
    [][(ret'.op = "step" /\ ret'.fault.piece) =>
         /\ ret'.piece = NoPiece
         /\ d'.pieces = d.pieces
         /\ \A k \in 1 .. MaxTasks : Stepped(k) => workers'[k].pc = "free"
         /\ ~d'.downloading
         /\ ~d'.completed]_vars

\* C29: when the write of one file of a multi-file download fails, every
\* selected file after it in the declared order is written in the same
\* pass of the File Assembler.
C29_WriteFailureContinues ==
    [][(ret'.op = "step" /\ multi /\ ret'.fault.file \in Written(d)) =>
         \A g \in Written(d) :
             g > ret'.fault.file => \E n \in DOMAIN Pass : Pass[n].path = g]_vars

\* the number of bytes of the writes ws
RECURSIVE StreamLen(_)
StreamLen(ws) == IF ws = << >> THEN 0 ELSE Head(ws).length + StreamLen(Tail(ws))

\* C30: when a download completes and its files are written, the data of
\* every piece i is the byte range [sum of the sizes of the pieces before i,
\* + size of i) of the byte stream written to the files: it comes from the
\* byte string the files were written from, and the range lies within the
\* stream, however many runs completed the download and whatever the file
\* selection.
C30_PieceDataIsFileData ==
    [][(ret'.op = "step" /\ data'.tracked /\ d'.completed /\ Pass # << >>) =>
         \A i \in PieceIdx :
             /\ data'.gen[i] = data'.wrote
             /\ SumSizes(0 .. i) <= StreamLen(Pass)]_vars

\* The assignments a `with self.lock:` block encloses.  app.py 479-491 is
\* the only block that writes: downloaded_pieces, downloaded_size and
\* download_progress in the scheduler (download_speed, written there too,
\* is no part of the model).  The other blocks (app.py 328 and 937,
\* models/download.py 257) only read, for get_status.
LockHeld(im, op, field) ==
    im = "mono" /\ op = "step" /\ field \in {"pieces", "size", "progress"}

\* the fields of the Download the claim names
Guarded == {"progress", "pieces", "size", "downloading", "paused", "completed"}

\* C31: every change a scheduler step or a start, pause, resume or stop
\* call makes to the progress, the downloaded pieces, the downloaded bytes
\* or a state flag of the Download is made while the Download's lock is
\* held.
C31_MutationsUnderLock ==
    [][(ret'.op \in ControlOps \cup {"step"}) =>
         \A f \in Guarded : d'[f] # d[f] => LockHeld(impl, ret'.op, f)]_vars

\* C32: once remove(id) has returned true the download is absent from the
\* registry and from the global index and its folder does not exist, and no
\* scheduler step made after the removal changes the downloaded pieces, the
\* downloaded bytes or the completed flag of the Download, or writes a file
\* to the folder.
C32_RemovedStaysDestroyed ==
    [][folder'.removed =>
         /\ ~known'
         /\ ~index'.exists
         /\ ~folder'.exists
         /\ (folder.removed /\ ret'.op = "step") =>
                /\ d'.pieces = d.pieces
                /\ d'.size = d.size
                /\ d'.completed = d.completed
                /\ out' = out]_vars

\* what a Download exposes: the flags, the pieces and the bytes
Exposed(dl) == <<dl.downloading, dl.paused, dl.completed, dl.pieces, dl.size>>

\* C33: app.py and the layered client, given the same calls on the same
\* torrent, return the same booleans and expose the same downloading,
\* paused, completed, downloaded pieces and downloaded bytes: a start, pause,
\* resume or stop made when the two expose the same leaves them exposing
\* the same, and returns the same boolean from both.
C33_SameBehaviour ==
    [][(twin.on /\ ret'.op \in ControlOps /\ Exposed(twin.s.d) = Exposed(d)) =>
         /\ twin'.res = ret'.res
         /\ Exposed(twin'.s.d) = Exposed(d')]_vars

\* the numbers of pieces a download of the torrent can be short of all
Short == 0 .. (ceil(TotalSize, PieceLength) - 1)

\* a resume was accepted on a download that is downloading with pieces
\* missing, n of them recorded
Resumed(n) ==
    /\ ret.op = "resume" /\ ret.res
    /\ d.downloading /\ ~d.paused
    /\ Cardinality(d.pieces) = n

C35_BytesArePieces ==
    /\ d.size = SumSizes(d.pieces)
    /\ d.size <= TorrentSize

\* C36: in every reachable state the progress is between 0 and 100 percent.
C36_ProgressInRange ==
    /\ d.progress.d > 0
    /\ d.progress.n >= 0
    /\ d.progress.n <= d.progress.d

\* C37: the state tag and the flags of a Download agree in every reachable
\* state: Stopped iff downloading and paused are both false, Downloading iff
\* downloading is true and paused false, Paused iff both are true; paused is
\* never true while downloading is false.  The tag is the State object of
\* models/download.py; app.py has the flags only.
C37_TagMatchesFlags ==
    /\ d.paused => d.downloading
    /\ (impl # "mono") =>
          /\ (d.state = "stopped") <=> (~d.downloading /\ ~d.paused)
          /\ (d.state = "downloading") <=> (d.downloading /\ ~d.paused)
          /\ (d.state = "paused") <=> (d.downloading /\ d.paused)

\* C38: completed is true only if every piece index of the Download is in
\* the downloaded pieces, however the scheduler loop ended.
C38_CompletedHasAllPieces == d.completed => d.pieces = PieceIdx

\* a scheduler step in which an exception was raised set completed
C38_Witness ==
    /\ ret.op = "step" /\ ret.fault # NoFault
    /\ d.completed

\* C39: completed and downloading are not both true in any reachable state.
C39_CompletedNotDownloading == ~(d.completed /\ d.downloading)

\* C40: a download parse_torrent created is known again after a restart and
\* load, whatever was or was not called on it in between.
C40_ParsedSurvivesRestart ==
    [][(known /\ ret'.op = "load") => known']_vars

====
